---- MODULE Spec2Model ----
(***************************************************************************)
(* A model of the appraisal API: the /predict endpoint (api/main.py), the  *)
(* two-stage LuxuryPipeline (api/pipeline.py) and the price-text parser    *)
(* parse_price_any.                                                        *)
(*                                                                         *)
(* Strings of the program are modelled as sequences of one-character       *)
(* strings, so that strip, startswith, f-string interpolation, str() and   *)
(* the regular expressions act on characters as they do in the code.       *)
(***************************************************************************)
EXTENDS Integers, Sequences, FiniteSets, TLC

VARIABLES
    \* ---- one request of the /predict endpoint ----
    pc,             \* position of the handler: "idle", "await_ident", "await_search", "done"
    content_type,   \* declared content type of the upload
    ident,          \* result of LuxuryPipeline.identify (None before it returns)
    calls,          \* remote calls issued by this request, in order
    queries,        \* the local `queries` of search_listings
    search_ident,   \* the `ident` argument search_listings was called with
    raw_results,    \* the listing records as decoded from the search response
    listings,       \* the value search_listings returned
    status,         \* HTTP status of the finished request (0 while running)
    response,       \* response body of the finished request
    ident_error,    \* the exception identify raised (None when it raised none)
    search_error,   \* the exception caught inside search_listings (None when none)
    \* ---- one application of parse_price_any ----
    segs,           \* how the price text was put together (marker, gap, amount per segment)
    price_text,     \* the argument of parse_price_any
    parsed,         \* its return value
    parse_done      \* whether parse_price_any has returned

vars == <<pc, content_type, ident, calls, queries, search_ident, raw_results,
          listings, status, response, ident_error, search_error,
          segs, price_text, parsed, parse_done>>

reqVars == <<pc, content_type, ident, calls, queries, search_ident, raw_results,
             listings, status, response, ident_error, search_error>>

parseVars == <<segs, price_text, parsed, parse_done>>

(***************************************************************************)
(* Bounds of the model.                                                    *)
(***************************************************************************)
\* most segments (marker + amount) a generated price text is joined from
MaxSegs == 2
\* most suggested_queries an identification result carries (above the cap of 8)
MaxSuggested == 9
\* most listing records a search response carries (ids reach two digits)
MaxListings == 11

(***************************************************************************)
(* Characters and strings.                                                 *)
(***************************************************************************)
Digits == {"0", "1", "2", "3", "4", "5", "6", "7", "8", "9"}

IsDigit(c) == c \in Digits

\* the whitespace characters the inputs use (str.strip and the regex \s agree on them)
IsSpace(c) == c \in {" ", "\t"}

\* re.IGNORECASE: letters compare by their upper-case form
UpperMap ==
    ("u" :> "U") @@ ("s" :> "S") @@ ("d" :> "D") @@ ("e" :> "E") @@
    ("r" :> "R") @@ ("g" :> "G") @@ ("b" :> "B") @@ ("p" :> "P") @@
    ("c" :> "C") @@ ("a" :> "A") @@ ("j" :> "J") @@ ("y" :> "Y")

Upper(c) == IF c \in DOMAIN UpperMap THEN UpperMap[c] ELSE c

DigitVal(c) ==
    CASE c = "0" -> 0 [] c = "1" -> 1 [] c = "2" -> 2 [] c = "3" -> 3 [] c = "4" -> 4
      [] c = "5" -> 5 [] c = "6" -> 6 [] c = "7" -> 7 [] c = "8" -> 8 [] c = "9" -> 9

Min(S) == CHOOSE x \in S : \A y \in S : x <= y

\* Python's None
None == [tag |-> "None"]

(***************************************************************************)
(* parse_price_any: the pattern table.                                     *)
(* A marker alternative is a sequence of atoms: a literal character        *)
(* (matched ignoring case) or OptSpace for the regex atom \s? .            *)
(* `decimals` says whether the amount group ends in (?:\.[0-9]{2})? .      *)
(***************************************************************************)
OptSpace == "\\s?"

patterns == <<
    [markers |-> << <<"U", "S", "D">>, <<"U", "S", OptSpace, "$">>, <<"$">> >>,
     decimals |-> TRUE, cur |-> "USD"],
    [markers |-> << <<"E", "U", "R">>, <<"€">> >>, decimals |-> TRUE, cur |-> "EUR"],
    [markers |-> << <<"G", "B", "P">>, <<"£">> >>, decimals |-> TRUE, cur |-> "GBP"],
    [markers |-> << <<"C", "A", "D">>, <<"C", "$">> >>, decimals |-> TRUE, cur |-> "CAD"],
    [markers |-> << <<"A", "U", "D">>, <<"A", "$">> >>, decimals |-> TRUE, cur |-> "AUD"],
    [markers |-> << <<"J", "P", "Y">>, <<"¥">> >>, decimals |-> FALSE, cur |-> "JPY"]
>>

(***************************************************************************)
(* The regular-expression matcher, restricted to the shape all six         *)
(* patterns share:  (alt1|alt2|..)\s*([0-9][0-9,]*(?:\.[0-9]{2})?)         *)
(* Positions are 1-based indices of the next character to read; 0 means    *)
(* "no match".                                                             *)
(***************************************************************************)
RECURSIVE MatchAtoms(_, _, _, _)
\* the atoms alt[k..] matched at position i: the position after the match, or 0.
\* \s? is greedy; the atom after it is never a whitespace character, so at most
\* one of its two branches can go on to match.
MatchAtoms(text, i, alt, k) ==
    IF k > Len(alt) THEN i
    ELSE IF alt[k] = OptSpace
         THEN LET taken == IF i <= Len(text) /\ IsSpace(text[i])
                           THEN MatchAtoms(text, i + 1, alt, k + 1) ELSE 0
              IN  IF taken # 0 THEN taken ELSE MatchAtoms(text, i, alt, k + 1)
         ELSE IF i <= Len(text) /\ Upper(text[i]) = alt[k]
              THEN MatchAtoms(text, i + 1, alt, k + 1)
              ELSE 0

RECURSIVE SkipSpaces(_, _)
\* \s* (greedy): the first position at or after i that holds no whitespace
SkipSpaces(text, i) ==
    IF i <= Len(text) /\ IsSpace(text[i]) THEN SkipSpaces(text, i + 1) ELSE i

RECURSIVE SkipDigitsCommas(_, _)
\* [0-9,]* (greedy)
SkipDigitsCommas(text, i) ==
    IF i <= Len(text) /\ (IsDigit(text[i]) \/ text[i] = ",")
    THEN SkipDigitsCommas(text, i + 1) ELSE i

\* group 2, ([0-9][0-9,]*(?:\.[0-9]{2})?), from position i: <<start, end>> with the
\* group being text[start..end-1], or <<0, 0>>. Everything after the first digit is
\* optional, so the greedy choice is never backtracked.
MatchAmount(text, i, decimals) ==
    LET p == SkipSpaces(text, i)
    IN  IF ~(p <= Len(text) /\ IsDigit(text[p])) THEN <<0, 0>>
        ELSE LET q == SkipDigitsCommas(text, p + 1)
                 frac == /\ decimals
                         /\ q + 2 <= Len(text)
                         /\ text[q] = "."
                         /\ IsDigit(text[q + 1])
                         /\ IsDigit(text[q + 2])
             IN  <<p, IF frac THEN q + 3 ELSE q>>

\* the pattern tried with alternative a at start position i: the span of group 2,
\* or <<0, 0>>
MatchAt(text, pat, i, a) ==
    LET j == MatchAtoms(text, i, pat.markers[a], 1)
    IN  IF j = 0 THEN <<0, 0>> ELSE MatchAmount(text, j, pat.decimals)

\* re.search(pat, text, flags=re.IGNORECASE): the leftmost start position that
\* matches, and at it the first alternative that matches; m.group(2), or None
re_search(pat, text) ==
    LET ok(i, a) == MatchAt(text, pat, i, a)[1] # 0
        starts == {i \in 1..Len(text) : \E a \in 1..Len(pat.markers) : ok(i, a)}
    IN  IF starts = {} THEN None
        ELSE LET i == Min(starts)
                 a == Min({b \in 1..Len(pat.markers) : ok(i, b)})
                 g == MatchAt(text, pat, i, a)
             IN  [tag |-> "Match", group2 |-> SubSeq(text, g[1], g[2] - 1)]

\* amt.replace(",", "")
RemoveCommas(s) == SelectSeq(s, LAMBDA c : c # ",")

RECURSIVE DecimalValue(_)
\* the number a run of decimal digits denotes
DecimalValue(s) ==
    IF s = <<>> THEN 0 ELSE 10 * DecimalValue(SubSeq(s, 1, Len(s) - 1)) + DigitVal(s[Len(s)])

\* whether float(s) succeeds, for s made of digits, "," and ".": digits with at
\* most one "." (float("1,0") raises ValueError)
FloatAccepts(s) ==
    /\ \E i \in 1..Len(s) : IsDigit(s[i])
    /\ \A i \in 1..Len(s) : IsDigit(s[i]) \/ s[i] = "."
    /\ Cardinality({i \in 1..Len(s) : s[i] = "."}) <= 1

\* float(s) for a digit string with an optional two-digit fraction, as a number of
\* hundredths (1234.56 is 123456)
FloatHundredths(s) ==
    LET dots == {i \in 1..Len(s) : s[i] = "."}
    IN  IF dots = {} THEN 100 * DecimalValue(s)
        ELSE LET d == Min(dots)
             IN  100 * DecimalValue(SubSeq(s, 1, d - 1))
                   + DecimalValue(SubSeq(s, d + 1, Len(s)))

\* lines 29-34: the value returned for a match of the pattern of currency cur
PriceOf(cur, group2) ==
    LET amt == RemoveCommas(group2)
    IN  IF FloatAccepts(amt)
        THEN [tag |-> "Price", currency |-> cur, amount |-> FloatHundredths(amt)]
        ELSE [tag |-> "Price", currency |-> cur, amount_text |-> amt]

RECURSIVE TryPatterns(_, _, _)
\* lines 27-35: the loop over the table from entry k on
TryPatterns(pats, text, k) ==
    IF k > Len(pats) THEN None
    ELSE LET m == re_search(pats[k], text)
         IN  IF m # None THEN PriceOf(pats[k].cur, m.group2)
             ELSE TryPatterns(pats, text, k + 1)

\* a plausible slip: the EUR entry of the table placed before the USD entry
parse_price_any_EurFirst(text) ==
    IF text = <<>> THEN None
    ELSE TryPatterns(<<patterns[2], patterns[1]>> \o SubSeq(patterns, 3, Len(patterns)),
                     text, 1)

\* lines 16-35
parse_price_any(text) ==
    IF text = <<>> THEN None ELSE TryPatterns(patterns, text, 1)

(***************************************************************************)
(* Price texts given to parse_price_any: up to MaxSegs segments joined by  *)
(* " / ", each segment a marker, a gap and an amount.                      *)
(***************************************************************************)
Markers == {
    <<"U", "S", "D">>, <<"U", "S", "$">>, <<"$">>,
    <<"E", "U", "R">>, <<"€">>, <<"e", "u", "r">>,
    <<"G", "B", "P">>, <<"£">>,
    <<"C", "A", "D">>, <<"C", "$">>,
    <<"A", "U", "D">>, <<"A", "$">>,
    <<"J", "P", "Y">>, <<"¥">>,
    <<>> }

WesternAmount  == <<"1", ",", "2", "3", "4", ".", "5", "6">>
EuropeanAmount == <<"2", ".", "0", "0", "0", ",", "0", "0">>
PlainAmount    == <<"5", "0", "0", "0">>

Segment(m, g, a) == [marker |-> m, gap |-> g, amount |-> a]

\* every marker directly followed by either amount, and a few more: whitespace
\* between marker and amount, inside "US $", a marker with no amount
Segments ==
    {Segment(m, <<>>, a) : m \in Markers, a \in {WesternAmount, EuropeanAmount}}
    \cup { Segment(<<"$">>, <<" ">>, WesternAmount),
           Segment(<<"U", "S", " ", "$">>, <<"\t", " ">>, PlainAmount),
           Segment(<<"¥">>, <<>>, PlainAmount),
           Segment(<<"€">>, <<" ">>, EuropeanAmount),
           Segment(<<"£">>, <<>>, <<>>),
           Segment(<<>>, <<>>, <<>>) }

SegmentLists == UNION {[1..n -> Segments] : n \in 0..MaxSegs}

Separator == <<" ", "/", " ">>

RECURSIVE Render(_)
Render(ss) ==
    IF ss = <<>> THEN <<>>
    ELSE LET s == ss[1]
             head == s.marker \o s.gap \o s.amount
         IN  IF Len(ss) = 1 THEN head ELSE head \o Separator \o Render(Tail(ss))

(***************************************************************************)
(* Strings: strip, startswith, str(int), float.                            *)
(***************************************************************************)
RECURSIVE LStrip(_)
LStrip(s) == IF s # <<>> /\ IsSpace(s[1]) THEN LStrip(Tail(s)) ELSE s

RECURSIVE RStrip(_)
RStrip(s) == IF s # <<>> /\ IsSpace(s[Len(s)]) THEN RStrip(SubSeq(s, 1, Len(s) - 1)) ELSE s

\* str.strip()
strip(s) == RStrip(LStrip(s))

\* str.startswith(prefix)
startswith(s, prefix) == Len(s) >= Len(prefix) /\ SubSeq(s, 1, Len(prefix)) = prefix

DigitChar(d) == <<"0", "1", "2", "3", "4", "5", "6", "7", "8", "9">>[d + 1]

RECURSIVE str(_)
\* str(n) of a non-negative int: its decimal digits, no leading zero
str(n) == IF n < 10 THEN <<DigitChar(n)>> ELSE str(n \div 10) \o <<DigitChar(n % 10)>>

\* A JSON number is an int or a float; its value is kept in hundredths.
\* float(x) keeps the value (exact below 2^53, far above the values drawn here)
\* and yields a float.
float(x) == [type |-> "float", hundredths |-> x.hundredths]

\* s[:n]
Take(s, n) == SubSeq(s, 1, IF Len(s) < n THEN Len(s) ELSE n)

\* a string is truthy iff it is not empty
Truthy(q) == q # <<>>

(***************************************************************************)
(* Inputs: the upload's declared content type.                             *)
(***************************************************************************)
NoContentType == [present |-> FALSE]

ContentTypes == {
    NoContentType,
    [present |-> TRUE, value |-> <<>>],
    [present |-> TRUE, value |-> <<"i", "m", "a", "g", "e", "/", "j", "p", "e", "g">>],
    [present |-> TRUE, value |-> <<"i", "m", "a", "g", "e">>],
    [present |-> TRUE, value |-> <<"I", "m", "a", "g", "e", "/", "p", "n", "g">>],
    [present |-> TRUE, value |-> <<"t", "e", "x", "t", "/", "p", "l", "a", "i", "n">>] }

ImagePrefix == <<"i", "m", "a", "g", "e", "/">>

\* a plausible slip: any declared content type passes
IsImageUpload_AnyDeclared(ct) == ct.present /\ ct.value # <<>>

\* main.py line 31, negated: the upload passes validation
IsImageUpload(ct) == ct.present /\ ct.value # <<>> /\ startswith(ct.value, ImagePrefix)

\* the slice bounds of lines 162 and 167
SuggestedCap == 8
QueryCap == 10

(***************************************************************************)
(* Inputs: identification results conforming to IDENT_SCHEMA_FORMAT (the   *)
(* fields the program reads; attributes, price range and rationale are     *)
(* passed through untouched and left out).                                 *)
(***************************************************************************)
Brands     == { <<" ", "C", "h", "\t">>, <<>> }
Models     == { <<"F", "l", "a", "p">> }
Categories == { <<"b", "a", "g">> }
AliasLists == { <<>>, << <<" ", "C", "F">>, <<"2", ".", "5", "5">> >> }
MarketValues == { [type |-> "int", hundredths |-> 480000],
                  [type |-> "float", hundredths |-> 125050] }
Confidences  == { [type |-> "float", hundredths |-> 82] }

\* suggested_queries: n queries "q1", "q2", ...; the one at position blank (if any)
\* is the empty string
SuggestedQueries(n, blank) ==
    [i \in 1..n |-> IF i = blank THEN <<>> ELSE <<"q">> \o str(i)]

SuggestedLists ==
    {SuggestedQueries(n, b) : n \in 0..MaxSuggested, b \in {0, SuggestedCap}}

Idents ==
    [brand : Brands, model : Models, category : Categories, aliases : AliasLists,
     confidence : Confidences, estimated_market_value_usd : MarketValues,
     suggested_queries : SuggestedLists]

(***************************************************************************)
(* search_listings, lines 157-167: the query list.                         *)
(***************************************************************************)
Quote == "\""
Price   == <<"p", "r", "i", "c", "e">>
Listing == <<"l", "i", "s", "t", "i", "n", "g">>

\* lines 163-165
Fallbacks(id) ==
    LET brand == strip(id.brand)
        model == strip(id.model)
        category == strip(id.category)
        base == << brand \o <<" ", Quote>> \o model \o <<Quote, " ">> \o Price,
                   brand \o <<" ", Quote>> \o model \o <<Quote, " ">> \o category
                         \o <<" ">> \o Listing >>
    IN  IF id.aliases # <<>>
        THEN Append(base, brand \o <<" ", Quote>> \o id.aliases[1] \o <<Quote, " ">>
                                \o category \o <<" ">> \o Listing)
        ELSE base

\* a plausible slip: the falsy entries are not filtered out
BuildQueries_NoFilter(id) ==
    Take(Take(id.suggested_queries, SuggestedCap) \o Fallbacks(id), QueryCap)

\* lines 162-167
BuildQueries(id) ==
    Take(SelectSeq(Take(id.suggested_queries, SuggestedCap) \o Fallbacks(id), Truthy),
         QueryCap)

(***************************************************************************)
(* Inputs: what the listings-search remote call does.                      *)
(***************************************************************************)
\* price_text values of the listing records (one is not a string: a response that
\* breaks the schema)
UsdText == <<"$", "1", ",", "2", "3", "4", ".", "5", "6">>
JpyText == <<"¥", "5", "0", "0", "0">>
NoMarkerText == <<"s", "o", "l", "d">>
PriceCycle == <<UsdText, <<>>, NoMarkerText, JpyText>>

\* JSON values a price_text can hold
JsonString(chars) == [type |-> "string", chars |-> chars]
NotAString == [type |-> "number", hundredths |-> 10000]

ListingRecord(i, price) ==
    [title |-> <<"t">> \o str(i), url |-> <<"u">> \o str(i), source |-> <<"s">>,
     price_text |-> price, date_text |-> <<>>, notes |-> <<>>]

\* n records; record i has price text PriceCycle[(i + shift) mod 4]; record `bad`
\* (if any) has a price_text that is no string
ResultList(n, shift, bad) ==
    [i \in 1..n |-> ListingRecord(i, IF i = bad THEN NotAString
                                     ELSE JsonString(PriceCycle[((i + shift) % Len(PriceCycle)) + 1]))]

\* decoded response bodies that conform to LISTINGS_SCHEMA_FORMAT; the provider
\* reports the queries it used, here the first n of those it was given
GoodBodies(qs) ==
    {[json |-> TRUE, queries_used |-> Take(qs, n), results |-> ResultList(n, sh, 0)] :
        n \in 0..MaxListings, sh \in 0..(Len(PriceCycle) - 1)}

\* response texts that make lines 189-191 raise: not JSON, or a price_text that is
\* not a string
BadBodies(qs) ==
    { [json |-> FALSE] } \cup
    {[json |-> TRUE, queries_used |-> qs, results |-> ResultList(n, 0, n)] : n \in 1..2}

\* exceptions, with the classes they are instances of
Exceptions == {
    [name |-> "APIConnectionError", message |-> "Connection error.",
     classes |-> {"APIConnectionError", "APIError", "OpenAIError", "Exception", "BaseException"}],
    [name |-> "RateLimitError", message |-> "",
     classes |-> {"RateLimitError", "APIStatusError", "APIError", "OpenAIError", "Exception", "BaseException"}] }

JSONDecodeError ==
    [name |-> "JSONDecodeError", message |-> "Expecting value: line 1 column 1 (char 0)",
     classes |-> {"JSONDecodeError", "ValueError", "Exception", "BaseException"}]

TypeError ==
    [name |-> "TypeError", message |-> "expected string or bytes-like object",
     classes |-> {"TypeError", "Exception", "BaseException"}]

(***************************************************************************)
(* search_listings, lines 182-194: the try block and its handler.          *)
(***************************************************************************)
\* line 191 raises iff parse_price_any is handed a truthy value that is no string
AnnotationRaises(results) ==
    \E i \in 1..Len(results) : results[i].price_text.type # "string"

\* a plausible slip: listings without a parsed price are dropped
Annotate_DropUnparsed(results) ==
    SelectSeq([i \in 1..Len(results) |->
                  [results[i] EXCEPT !.price_text = @.chars]
                      @@ [parsed_price |-> parse_price_any(results[i].price_text.chars)]],
              LAMBDA r : r.parsed_price # None)

\* lines 190-191: r["parsed_price"] = parse_price_any(r.get("price_text", ""))
Annotate(results) ==
    [i \in 1..Len(results) |->
        [results[i] EXCEPT !.price_text = @.chars]
            @@ [parsed_price |-> parse_price_any(results[i].price_text.chars)]]

\* what lines 189-191 raise for a response body (None when they raise nothing)
DecodeError(body) ==
    IF ~body.json THEN JSONDecodeError
    ELSE IF AnnotationRaises(body.results) THEN TypeError
    ELSE None

\* a plausible slip: only errors of the API client are caught
Catches_ApiErrorsOnly(e) == "APIError" \in e.classes

\* line 193: except Exception
Catches(e) == "Exception" \in e.classes

\* a plausible slip: the handler gives up the query list
Degraded_NoQueries(qs, e) ==
    [queries_used |-> <<>>, results |-> <<>>,
     error |-> <<"web_search unavailable or failed: ", e.name, ": ", e.message>>]

\* line 194; the error string is kept as the pieces the f-string joins
Degraded(qs, e) ==
    [queries_used |-> qs, results |-> <<>>,
     error |-> <<"web_search unavailable or failed: ", e.name, ": ", e.message>>]

(***************************************************************************)
(* predict, lines 40-61: the response body.                                *)
(***************************************************************************)
\* a plausible slip: ids counted from one
SimilarListings_OneBased(results) ==
    [i \in 1..Len(results) |->
        [id |-> str(i), title |-> results[i].title, price_text |-> results[i].price_text,
         url |-> results[i].url, source |-> results[i].source]]

\* lines 51-60; enumerate counts from 0, sequences here from 1
SimilarListings(results) ==
    [i \in 1..Len(results) |->
        [id |-> str(i - 1), title |-> results[i].title, price_text |-> results[i].price_text,
         url |-> results[i].url, source |-> results[i].source]]

Shape(id, lst) ==
    [predicted_price |-> float(id.estimated_market_value_usd),
     currency |-> "USD",
     confidence |-> float(id.confidence),
     brand |-> id.brand,
     model |-> id.model,
     category |-> id.category,
     similar_listings |-> SimilarListings(lst.results)]

(***************************************************************************)
(* The remote-call log.                                                    *)
(***************************************************************************)
\* a plausible slip: the identification call is retried once
IssueIdentify_Retry(cs) == cs \o <<"identify", "identify">>

\* identify, line 149
IssueIdentify(cs) == Append(cs, "identify")

\* search_listings, line 183
IssueSearch(cs) == Append(cs, "search")

(***************************************************************************)
(* One request of POST /predict.                                           *)
(***************************************************************************)
ReqInit ==
    /\ pc = "idle"
    /\ content_type = NoContentType
    /\ ident = None
    /\ calls = <<>>
    /\ queries = <<>>
    /\ search_ident = None
    /\ raw_results = <<>>
    /\ listings = None
    /\ status = 0
    /\ response = None
    /\ ident_error = None
    /\ search_error = None

Init ==
    /\ ReqInit
    /\ segs = <<>>
    /\ price_text = <<>>
    /\ parsed = None
    /\ parse_done = FALSE

\* predict up to the identification call: validation (lines 31-32), then run ->
\* identify -> client.responses.create (line 149)
Predict(ct) ==
    /\ pc = "idle"
    /\ content_type' = ct
    /\ IF IsImageUpload(ct)
       THEN /\ calls' = IssueIdentify(calls)
            /\ pc' = "await_ident"
            /\ status' = status
       ELSE /\ status' = 400
            /\ pc' = "done"
            /\ calls' = calls
    /\ UNCHANGED <<ident, queries, search_ident, raw_results, listings, response,
                   ident_error, search_error>>
    /\ UNCHANGED parseVars

\* the identification call returns: identify returns the decoded object, run calls
\* search_listings, which builds the query list and issues the search call
IdentifyReturns(id) ==
    /\ pc = "await_ident"
    /\ ident' = id
    /\ search_ident' = id
    /\ queries' = BuildQueries(id)
    /\ calls' = IssueSearch(calls)
    /\ pc' = "await_search"
    /\ UNCHANGED <<content_type, raw_results, listings, status, response,
                   ident_error, search_error>>
    /\ UNCHANGED parseVars

\* the identification call (or json.loads of its output) raises: nothing catches
\* it in identify, run or predict, so the request ends as a server error
IdentifyRaises(e) ==
    /\ pc = "await_ident"
    /\ ident_error' = e
    /\ status' = 500
    /\ pc' = "done"
    /\ UNCHANGED <<content_type, ident, calls, queries, search_ident, raw_results,
                   listings, response, search_error>>
    /\ UNCHANGED parseVars

\* the rest of the request once the try block of search_listings has ended,
\* raising e inside it (None: it returned data)
Finish(body, e) ==
    IF e = None
    THEN LET lst == [queries_used |-> body.queries_used, results |-> Annotate(body.results)]
         IN  /\ listings' = lst
             /\ search_error' = None
             /\ response' = Shape(ident, lst)
             /\ status' = 200
    ELSE IF Catches(e)
    THEN LET lst == Degraded(queries, e)
         IN  /\ listings' = lst
             /\ search_error' = e
             /\ response' = Shape(ident, lst)
             /\ status' = 200
    ELSE /\ listings' = listings
         /\ search_error' = e
         /\ response' = response
         /\ status' = 500

\* the search call returns a response text
SearchReturns(body) ==
    /\ pc = "await_search"
    /\ raw_results' = IF body.json THEN body.results ELSE <<>>
    /\ Finish(body, DecodeError(body))
    /\ pc' = "done"
    /\ UNCHANGED <<content_type, ident, calls, queries, search_ident, ident_error>>
    /\ UNCHANGED parseVars

\* the search call raises
SearchRaises(e) ==
    /\ pc = "await_search"
    /\ raw_results' = <<>>
    /\ Finish([json |-> FALSE], e)
    /\ pc' = "done"
    /\ UNCHANGED <<content_type, ident, calls, queries, search_ident, ident_error>>
    /\ UNCHANGED parseVars

Next ==
    \/ \E ct \in ContentTypes : Predict(ct)
    \/ \E id \in Idents : IdentifyReturns(id)
    \/ \E e \in Exceptions \cup {JSONDecodeError} : IdentifyRaises(e)
    \/ \E body \in GoodBodies(queries) \cup BadBodies(queries) : SearchReturns(body)
    \/ \E e \in Exceptions : SearchRaises(e)

Spec == Init /\ [][Next]_vars

(***************************************************************************)
(* parse_price_any applied to one price text.                              *)
(***************************************************************************)
ParseInit ==
    /\ ReqInit
    /\ segs \in SegmentLists
    /\ price_text = Render(segs)
    /\ parsed = None
    /\ parse_done = FALSE

ParseCall ==
    /\ ~parse_done
    /\ parsed' = parse_price_any(price_text)
    /\ parse_done' = TRUE
    /\ UNCHANGED <<segs, price_text>>
    /\ UNCHANGED reqVars

ParseNext == ParseCall

SpecParse == ParseInit /\ [][ParseNext]_vars

(***************************************************************************)
(* Properties of one request (checked under Spec).                         *)
(***************************************************************************)
Range(f) == {f[i] : i \in DOMAIN f}

Count(seq, x) == Cardinality({i \in 1..Len(seq) : seq[i] = x})

\* the upload declares a content type that starts with "image/"
DeclaresImage(ct) == ct.present /\ startswith(ct.value, ImagePrefix)

\* C1: an upload whose declared content type is absent or does not start with
\* "image/" ends with HTTP 400, and neither the identification call nor the
\* listings-search call is ever issued for it.
C1_NonImageRejected ==
    (pc # "idle" /\ ~DeclaresImage(content_type))
        => /\ pc = "done"
           /\ status = 400
           /\ calls = <<>>
           /\ response = None

C1_Witness ==
    /\ pc = "done"
    /\ content_type.present
    /\ content_type.value = <<"t", "e", "x", "t", "/", "p", "l", "a", "i", "n">>
    /\ status = 400

\* C2: whenever the listings-search call, or the decoding or annotation of its
\* response, raises, search_listings still returns: queries_used is the query list
\* it built, results is empty and error is a non-empty string.
C2_SearchFailureDegrades ==
    search_error # None
        => /\ listings # None
           /\ listings.queries_used = queries
           /\ queries = BuildQueries(search_ident)
           /\ listings.results = <<>>
           /\ "error" \in DOMAIN listings
           /\ \E i \in 1..Len(listings.error) : listings.error[i] # ""

C2_Witness ==
    /\ search_error = TypeError
    /\ raw_results # <<>>
    /\ listings.results = <<>>
    /\ Len(listings.queries_used) = QueryCap

\* C3: a request that uploads an image fails as a whole iff the identification
\* call fails. When identification succeeds the response is a success carrying the
\* identification fields whatever the search did (similar_listings empty when the
\* search failed); when identification fails there is no response body.
C3_OnlyIdentificationIsFatal ==
    (pc = "done" /\ DeclaresImage(content_type))
        => /\ (status # 200) <=> (ident_error # None)
           /\ ident_error # None => (response = None /\ status = 500)
           /\ ident_error = None =>
                 /\ status = 200
                 /\ response # None
                 /\ response.brand = ident.brand
                 /\ response.model = ident.model
                 /\ response.category = ident.category
                 /\ response.predicted_price.hundredths
                        = ident.estimated_market_value_usd.hundredths
                 /\ search_error # None => response.similar_listings = <<>>

C3_Witness ==
    /\ pc = "done"
    /\ DeclaresImage(content_type)
    /\ search_error = JSONDecodeError
    /\ status = 200
    /\ response.brand = ident.brand
    /\ response.similar_listings = <<>>

\* C4: the two remote calls of a request are sequential and never retried: at most
\* one identification call and at most one search call; the search call is issued
\* only after the identification call returned, with that call's result; no search
\* call is issued when identification failed.
C4_SequentialNoRetry ==
    /\ Count(calls, "identify") <= 1
    /\ Count(calls, "search") <= 1
    /\ "search" \in Range(calls)
          => /\ calls = <<"identify", "search">>
             /\ ident # None
             /\ ident_error = None
             /\ search_ident = ident
    /\ ident_error # None => calls = <<"identify">>
    /\ pc = "await_ident" => calls = <<"identify">>

C4_Witness ==
    /\ pc = "done"
    /\ status = 200
    /\ calls = <<"identify", "search">>
    /\ search_ident = ident

\* C5: the query list is a function of the identification result alone (building
\* it again from the same result gives the same list); it has at most 10 entries,
\* none empty, and it is the non-empty ones of the first 8 suggested queries
\* followed by the fallback queries, cut to 10 (every kept suggested query and the
\* first two fallbacks are always in it).
C5_QueryList ==
    search_ident # None =>
        LET sug   == search_ident.suggested_queries
            first == [i \in 1..(IF Len(sug) < 8 THEN Len(sug) ELSE 8) |-> sug[i]]
            kept  == SelectSeq(first, LAMBDA q : q # <<>>)
            all   == kept \o Fallbacks(search_ident)
        IN  /\ queries = BuildQueries(search_ident)
            /\ Len(queries) <= 10
            /\ \A i \in 1..Len(queries) : queries[i] # <<>>
            /\ Len(queries) = (IF Len(all) < 10 THEN Len(all) ELSE 10)
            /\ \A i \in 1..Len(queries) : queries[i] = all[i]
            /\ Len(queries) >= Len(kept) + 2

C5_Witness ==
    /\ search_ident # None
    /\ Len(search_ident.suggested_queries) = 9
    /\ search_ident.suggested_queries[8] = <<>>
    /\ search_ident.aliases # <<>>
    /\ Len(queries) = 10
    /\ queries[8] = Fallbacks(search_ident)[1]

\* C8: a successful response has predicted_price equal to the identification's
\* estimated_market_value_usd, currency "USD", confidence, brand, model and
\* category copied from the identification, and one similar_listings entry per
\* listing record the search step returned, in the same order, entry i (from 0)
\* having id = the decimal string of i.
C8_ResponseShape ==
    status = 200 =>
        /\ response.predicted_price.type = "float"
        /\ response.predicted_price.hundredths = ident.estimated_market_value_usd.hundredths
        /\ response.currency = "USD"
        /\ response.confidence.hundredths = ident.confidence.hundredths
        /\ response.brand = ident.brand
        /\ response.model = ident.model
        /\ response.category = ident.category
        /\ Len(response.similar_listings) = Len(listings.results)
        /\ \A i \in 1..Len(listings.results) :
              LET e == response.similar_listings[i]
                  r == listings.results[i]
              IN  /\ DecimalValue(e.id) = i - 1
                  /\ \A j \in 1..Len(e.id) : IsDigit(e.id[j])
                  /\ Len(e.id) > 1 => e.id[1] # "0"
                  /\ e.title = r.title
                  /\ e.price_text = r.price_text
                  /\ e.url = r.url
                  /\ e.source = r.source

C8_Witness ==
    /\ status = 200
    /\ Len(listings.results) = 11
    /\ response.similar_listings[11].id = <<"1", "0">>
    /\ response.similar_listings[1].id = <<"0">>
    /\ response.predicted_price = [type |-> "float", hundredths |-> 480000]
    /\ ident.estimated_market_value_usd.type = "int"

\* C9: when the search succeeds every returned listing carries a parsed_price
\* derived from its own price_text; a listing whose price_text is empty or matches
\* no pattern gets None, and the number and order of the listings is unchanged.
C9_AnnotationKeepsListings ==
    (pc = "done" /\ ident # None /\ search_error = None) =>
        /\ status = 200
        /\ Len(listings.results) = Len(raw_results)
        /\ Len(response.similar_listings) = Len(raw_results)
        /\ \A i \in 1..Len(raw_results) :
              LET r == listings.results[i]
                  text == raw_results[i].price_text.chars
                  matches == \E k \in 1..Len(patterns) : re_search(patterns[k], text) # None
              IN  /\ r.title = raw_results[i].title
                  /\ r.url = raw_results[i].url
                  /\ r.price_text = text
                  /\ r.parsed_price = parse_price_any(text)
                  /\ (text = <<>> \/ ~matches) <=> (r.parsed_price = None)

C9_Witness ==
    /\ status = 200
    /\ search_error = None
    /\ Len(listings.results) = 11
    /\ listings.results[1].price_text = <<>>
    /\ listings.results[1].parsed_price = None
    /\ listings.results[2].price_text = NoMarkerText
    /\ listings.results[2].parsed_price = None
    /\ listings.results[3].parsed_price = [tag |-> "Price", currency |-> "JPY", amount |-> 500000]

(***************************************************************************)
(* Properties of parse_price_any (checked under SpecParse).                *)
(***************************************************************************)
\* the priority order the patterns are said to have
Priority == <<"USD", "EUR", "GBP", "CAD", "AUD", "JPY">>

PatternOf(cur) == CHOOSE p \in Range(patterns) : p.cur = cur

\* positions in Priority of the currencies whose pattern matches the text
Matching(text) == {k \in 1..Len(Priority) : re_search(PatternOf(Priority[k]), text) # None}

\* C6: when more than one pattern matches a price text, the currency returned is
\* that of the earliest pattern in the order USD, EUR, GBP, CAD, AUD, JPY, wherever
\* the markers stand in the text.
C6_PatternPriority ==
    (parse_done /\ Cardinality(Matching(price_text)) > 1)
        => /\ parsed # None
           /\ parsed.currency = Priority[Min(Matching(price_text))]

C6_Witness ==
    /\ parse_done
    /\ segs = <<Segment(<<"€">>, <<>>, WesternAmount), Segment(<<"$">>, <<>>, WesternAmount)>>
    /\ Matching(price_text) = {1, 2}
    /\ parsed = [tag |-> "Price", currency |-> "USD", amount |-> 123456]

EurMarkers == { <<"E", "U", "R">>, <<"€">>, <<"e", "u", "r">> }

\* C7: a price text in European number format after a EUR marker ("€2.000,00") is
\* not matched by the EUR pattern: parse_price_any returns no EUR result for it.
C7_EuropeanFormatNotMatched ==
    (/\ parse_done
     /\ Len(segs) = 1
     /\ segs[1].marker \in EurMarkers
     /\ segs[1].amount = EuropeanAmount)
        => (parsed = None \/ parsed.currency # "EUR")

\* the currency each recognised marker is said to belong to
MarkerCurrency(m) ==
    LET u == [i \in 1..Len(m) |-> Upper(m[i])]
    IN  CASE u \in { <<"U", "S", "D">>, <<"U", "S", "$">>, <<"U", "S", " ", "$">>, <<"$">> } -> "USD"
          [] u \in { <<"E", "U", "R">>, <<"€">> } -> "EUR"
          [] u \in { <<"G", "B", "P">>, <<"£">> } -> "GBP"
          [] u \in { <<"C", "A", "D">>, <<"C", "$">> } -> "CAD"
          [] u \in { <<"A", "U", "D">>, <<"A", "$">> } -> "AUD"
          [] u \in { <<"J", "P", "Y">>, <<"¥">> } -> "JPY"

\* C10: a price text that is one recognised currency marker followed by a numeric
\* amount yields the currency the marker belongs to (C$ yields CAD, A$ yields AUD);
\* a text with no recognised marker, or an empty text, yields no match.
C10_MarkerDecidesCurrency ==
    (parse_done /\ Len(segs) <= 1) =>
        IF segs = <<>> \/ segs[1].marker = <<>>
        THEN parsed = None
        ELSE segs[1].amount \in {WesternAmount, PlainAmount}
                => /\ parsed # None
                   /\ parsed.currency = MarkerCurrency(segs[1].marker)

====
